---- MODULE Spec2Model ----
(***************************************************************************)
(* The versioned asset store of davai (davai/git.py), its asset list       *)
(* (davai/assets.py), the body extraction of davai/code_block.py and the   *)
(* directory tree the store is synchronised with.                          *)
(*                                                                         *)
(* A Python str is modelled as the sequence of its lines (str.split("\n")  *)
(* always yields at least one line, so "" is <<"">>).  CodeBlock objects   *)
(* live in a heap and the lists hold references to them, because           *)
(* list.copy() is a shallow copy: a snapshot and the live list may hold    *)
(* the same CodeBlock.                                                     *)
(***************************************************************************)
EXTENDS Integers, Sequences, FiniteSets, TLC

VARIABLES
    git,        \* the Git object and the CodeBlock objects it references
    added,      \* the filenames passed to add_asset, while onlyAdds
    onlyAdds,   \* TRUE while every call so far was add_asset
    codec       \* beside the store: the response text at hand and the assets
                \* extracted from it (SpecCodec), the call made on a line or a
                \* body (SpecLines), the prompt's record of its last task (SpecCLI)

vars == <<git, added, onlyAdds, codec>>

(***************************************************************************)
(* Bounds of the model.                                                    *)
(***************************************************************************)
MaxCommits == 2     \* Spec: commit is not called once head + 1 = MaxCommits
MaxLog == 3         \* Spec: redo is not called once the log holds MaxLog entries
MaxObjs == 2        \* Spec: CodeBlock objects referenced at the same time
MaxChain == 3       \* SpecLinear: commits c1..cn the store starts with, n <= MaxChain
MaxTreeCommits == 1 \* SpecTree: commit is not called once head + 1 = MaxTreeCommits
MaxItems == 2       \* SpecCodec: fenced blocks and prose lines of a reply
MaxLines == 3       \* SpecLines: lines of a raw body
MaxBlocks == 1      \* SpecCLI: fenced blocks of the reply to a task

(***************************************************************************)
(* Input sets.                                                             *)
(***************************************************************************)
Root == "src"
Paths == {"src/a.js", "src/sub/b.js", "srcx/a.js"}
Dirs == {"src", "src/sub", "srcx"}
Texts == {<<"y">>, <<"", "x">>}
Codes == {<<"x">>, <<"y">>}
Messages == {"m1"}
Labels == {"m1", "m2"}

None == "None"
NoFile == <<>>

Range(s) == {s[i] : i \in 1..Len(s)}

Min(S) == CHOOSE x \in S : \A y \in S : x <= y

(***************************************************************************)
(* davai/code_block.py                                                     *)
(***************************************************************************)
\* str.strip() on one line
strip(line) == IF line = " " THEN "" ELSE line

\* Head.from_comment: the path a comment line carries, or None
from_comment(comment) ==
    CASE strip(comment) = "// src/a.js" -> "src/a.js"
      [] strip(comment) = "// src/sub/b.js" -> "src/sub/b.js"
      [] OTHER -> None

RECURSIVE body_lines(_, _)
\* the loop of Body._extract_body over the remaining lines
body_lines(lines, start_processing) ==
    IF lines = <<>> THEN <<>>
    ELSE LET line == Head(lines)
             stripped_line == strip(line)
             started == start_processing
                        \/ (stripped_line /= "" /\ from_comment(stripped_line) = None)
         IN (IF started THEN <<line>> ELSE <<>>) \o body_lines(Tail(lines), started)

\* "\n".join(lines): the joined string, again as its lines
join(lines) == IF lines = <<>> THEN <<"">> ELSE lines

\* Body._extract_body
extract_body(code) == join(body_lines(code, FALSE))

\* CodeBlock(Head(filename), Body(content))
CodeBlock(filename, content) == [path |-> filename, code |-> extract_body(content)]

\* str.endswith, for the extensions of the model's paths
endswith(path, ext) == ext = ".js" /\ path \in {"src/a.js", "src/sub/b.js", "srcx/a.js"}

\* Head.code_type
code_type(path) ==
    CASE endswith(path, ".js") -> "javascript"
      [] endswith(path, ".ts") -> "typescript"
      [] endswith(path, ".dart") -> "dart"
      [] endswith(path, ".css") -> "css"
      [] OTHER -> ""

\* Head.as_comment, without the newline that ends the line
as_comment(path) ==
    IF endswith(path, ".js") \/ endswith(path, ".ts") \/ endswith(path, ".dart")
    THEN CASE path = "src/a.js" -> "// src/a.js"
           [] path = "src/sub/b.js" -> "// src/sub/b.js"
           [] path = "srcx/a.js" -> "// srcx/a.js"
    ELSE "# other"

\* the line that opens a fenced block of a language; a string of the model
\* writes the three backquotes of a fence as '''
fence(tag) == IF tag = "javascript" THEN "'''javascript" ELSE "'''"

\* CodeBlock.__repr__: the lines of the rendered block
repr(cb) == <<fence(code_type(cb.path)), as_comment(cb.path)>> \o cb.code \o <<"'''">>

\* CodeBlock.parse: <<>> for None, else the CodeBlock alone in a sequence
parse(code_block) ==
    LET nonblank == SelectSeq(code_block, LAMBDA line : strip(line) /= "")
    IN IF nonblank = <<>> THEN <<>>
       ELSE LET head == from_comment(strip(Head(nonblank)))
            IN IF head /= None
               THEN <<[path |-> head, code |-> extract_body(code_block)]>>
               ELSE <<>>

(***************************************************************************)
(* davai/responses.py                                                      *)
(***************************************************************************)
\* the line ends with ```[a-z]*, where the pattern can start
opens(line) == line \in {"'''", "'''javascript"}

\* the line starts with ```, where the pattern can end
closes(line) == line \in {"'''", "'''javascript"}

RECURSIVE findall(_, _)
\* re.findall(r"```[a-z]*\n(.*?)\n```", text, re.DOTALL) from line i on: the
\* group holds at least one line, so the pattern ends at the first line after
\* i + 1 that starts with ```, and the search goes on after that line
findall(lines, i) ==
    IF i > Len(lines) THEN <<>>
    ELSE LET ends == {j \in (i + 2)..Len(lines) : closes(lines[j])}
         IN IF opens(lines[i]) /\ ends /= {}
            THEN <<SubSeq(lines, i + 1, Min(ends) - 1)>> \o findall(lines, Min(ends) + 1)
            ELSE findall(lines, i + 1)

RECURSIVE parse_all(_)
\* the loop of extract_code_blocks over the blocks found
parse_all(code_blocks) ==
    IF code_blocks = <<>> THEN <<>>
    ELSE parse(Head(code_blocks)) \o parse_all(Tail(code_blocks))

\* CodeResponse.extract_code_blocks
extract_code_blocks(response_text) == parse_all(findall(response_text, 1))

\* What a reply is made of: lines of prose and fenced blocks, a block being an
\* opening fence with an optional language, its lines, and a closing fence.
Items ==
    [kind : {"prose"}, tag : {""}, content : {<<"p">>}]
        \cup [kind : {"block"}, tag : {"", "javascript"},
              content : {<<>>, <<"x">>, <<"// src/a.js", "x">>, <<"", "// src/sub/b.js", "y">>}]

Replies == UNION {[1..n -> Items] : n \in 1..MaxItems}

RECURSIVE text_of(_)
\* the lines of the reply made of the items
text_of(items) ==
    IF items = <<>> THEN <<>>
    ELSE LET item == Head(items)
         IN (IF item.kind = "prose" THEN item.content
             ELSE <<fence(item.tag)>> \o item.content \o <<"'''">>) \o text_of(Tail(items))

\* the bodies an asset can hold
Bodies == {<<"">>, <<"x">>, <<"y", "">>}

\* no response at hand
CodecInit == [items |-> <<>>, source |-> <<>>, response_text |-> <<>>,
              assets |-> <<>>, extracted |-> FALSE]

(***************************************************************************)
(* davai/code_block.py on characters.  For what the patterns of            *)
(* Head.from_comment accept, a line is the sequence of its characters and  *)
(* a str the sequence of its lines; None is the empty sequence, which no   *)
(* pattern matches.                                                        *)
(***************************************************************************)
\* \s
Space == {" ", "\n"}

\* [\w\d/_-], over the characters the model's lines are written with
WordChars ==
    {"a", "b", "c", "d", "e", "g", "i", "j", "l", "m", "n", "o", "p", "r", "s", "t", "u",
     "x", "y", "S", "1", "_", "/", "-"}

\* the sequence without its first n elements
drop(s, n) == SubSeq(s, n + 1, Len(s))

\* str.startswith
str_startswith(s, prefix) == Len(s) >= Len(prefix) /\ SubSeq(s, 1, Len(prefix)) = prefix

\* str.endswith
str_endswith(s, suffix) ==
    Len(s) >= Len(suffix) /\ SubSeq(s, Len(s) - Len(suffix) + 1, Len(s)) = suffix

\* the length of the longest prefix of s made of characters of class
span(s, class) ==
    IF \A i \in 1..Len(s) : s[i] \in class THEN Len(s)
    ELSE Min({i \in 1..Len(s) : s[i] \notin class}) - 1

\* str.lstrip
lstrip(s) == drop(s, span(s, Space))

\* str.strip
str_strip(s) ==
    LET t == lstrip(s)
        keep == {i \in 1..Len(t) : t[i] \notin Space}
    IN IF keep = {} THEN <<>> ELSE SubSeq(t, 1, CHOOSE i \in keep : \A j \in keep : j <= i)

\* the extensions of the line-style pattern, in the order of its alternation
js_ts_exts == << <<"j", "s">>, <<"t", "s">>, <<"d", "a", "r", "t">> >>

\* the extension of the block-style pattern
css_exts == << <<"c", "s", "s">> >>

src_slash == <<"s", "r", "c", "/">>

\* (src/[\w\d/_-]+\.(e1|e2|...)) matched at the start of t and followed by a
\* match of the rest of the pattern, which is the sequence tail after blanks
\* (nothing for an empty tail): the group, or None.  The class is matched
\* greedily, so the longest run that lets the whole pattern match wins; of
\* the alternatives, the first that matches.
group1(t, exts, tail) ==
    IF ~str_startswith(t, src_slash) THEN <<>>
    ELSE LET u == drop(t, 4)
             hit(k, e) == /\ k < Len(u)
                          /\ u[k + 1] = "."
                          /\ str_startswith(drop(u, k + 1), exts[e])
                          /\ \/ tail = <<>>
                             \/ str_startswith(lstrip(drop(u, k + 1 + Len(exts[e]))), tail)
             ks == {k \in 1..span(u, WordChars) : \E e \in 1..Len(exts) : hit(k, e)}
         IN IF ks = {} THEN <<>>
            ELSE LET k == CHOOSE x \in ks : \A y \in ks : y <= x
                     e == Min({x \in 1..Len(exts) : hit(k, x)})
                 IN src_slash \o SubSeq(u, 1, k) \o <<".">> \o exts[e]

\* re.match(r"^//\s*(src/[\w\d/_-]+\.(js|ts|dart))", s): group 1, or None
js_ts_match(s) ==
    IF str_startswith(s, <<"/", "/">>)
    THEN group1(lstrip(drop(s, 2)), js_ts_exts, <<>>)
    ELSE <<>>

\* re.match(r"^/\*\s*(src/[\w\d/_-]+\.css)\s*\*/", s): group 1, or None
css_match(s) ==
    IF str_startswith(s, <<"/", "*">>)
    THEN group1(lstrip(drop(s, 2)), css_exts, <<"*", "/">>)
    ELSE <<>>

\* Head.from_comment on the characters of a line: the path, or None
Head_from_comment(comment) ==
    IF js_ts_match(str_strip(comment)) /= <<>> THEN js_ts_match(str_strip(comment))
    ELSE css_match(str_strip(comment))

\* Head.code_type on the characters of a path
Head_code_type(path) ==
    IF str_endswith(path, <<".", "j", "s">>) THEN "javascript"
    ELSE IF str_endswith(path, <<".", "t", "s">>) THEN "typescript"
    ELSE IF str_endswith(path, <<".", "d", "a", "r", "t">>) THEN "dart"
    ELSE IF str_endswith(path, <<".", "c", "s", "s">>) THEN "css"
    ELSE ""

\* as_comment without the dart extension in the line-style list
Head_as_comment_js_ts(path) ==
    IF \/ str_endswith(path, <<".", "j", "s">>)
       \/ str_endswith(path, <<".", "t", "s">>)
    THEN <<"/", "/", " ">> \o path \o <<"\n">>
    ELSE IF str_endswith(path, <<".", "c", "s", "s">>)
    THEN <<"/", "*", " ">> \o path \o <<" ", "*", "/", "\n">>
    ELSE <<"#", " ">> \o path \o <<"\n">>

\* Head.as_comment on the characters of a path
Head_as_comment(path) ==
    IF \/ str_endswith(path, <<".", "j", "s">>)
       \/ str_endswith(path, <<".", "t", "s">>)
       \/ str_endswith(path, <<".", "d", "a", "r", "t">>)
    THEN <<"/", "/", " ">> \o path \o <<"\n">>
    ELSE IF str_endswith(path, <<".", "c", "s", "s">>)
    THEN <<"/", "*", " ">> \o path \o <<" ", "*", "/", "\n">>
    ELSE <<"#", " ">> \o path \o <<"\n">>

RECURSIVE Body_lines(_, _)
\* the loop of Body._extract_body over the remaining lines
Body_lines(lines, start_processing) ==
    IF lines = <<>> THEN <<>>
    ELSE LET line == Head(lines)
             stripped_line == str_strip(line)
             started == start_processing
                        \/ (stripped_line /= <<>> /\ Head_from_comment(stripped_line) = <<>>)
         IN (IF started THEN <<line>> ELSE <<>>) \o Body_lines(Tail(lines), started)

\* _extract_body that leaves out the first line alone when it is blank or a
\* path comment
Body_extract_body_first(code) ==
    LET stripped_line == str_strip(Head(code))
    IN IF stripped_line /= <<>> /\ Head_from_comment(stripped_line) = <<>> THEN code
       ELSE IF Len(code) = 1 THEN << <<>> >>
       ELSE Tail(code)

\* _extract_body that leaves out blank lines and path comments wherever they are
Body_extract_body_anywhere(code) ==
    LET kept == SelectSeq(code, LAMBDA line :
                    str_strip(line) /= <<>> /\ Head_from_comment(str_strip(line)) = <<>>)
    IN IF kept = <<>> THEN << <<>> >> ELSE kept

\* Body._extract_body on a str of lines of characters
Body_extract_body(code) ==
    IF Body_lines(code, FALSE) = <<>> THEN << <<>> >> ELSE Body_lines(code, FALSE)

\* What a line given to from_comment is made of: leading blanks, the opening of
\* a comment, a gap, then a path (a top directory, a stem, an extension), and
\* what follows the path.
Leads == {<<>>, <<" ">>}
Openers == {<<>>, <<"/", "/">>, <<"/", "*">>, <<"#">>}
Gaps == {<<>>, <<" ">>}
Tops == {<<"s", "r", "c", "/">>, <<"l", "i", "b", "/">>, <<"s", "r", "c", "x", "/">>}
Stems == {<<"a">>, <<"s", "u", "b", "/", "b", "_", "c", "-", "1">>, <<"a", ".", "b">>,
          <<"a", " ", "b">>}
Exts == {<<".", "j", "s">>, <<".", "t", "s">>, <<".", "d", "a", "r", "t">>,
         <<".", "c", "s", "s">>, <<".", "j", "s", "x">>, <<".", "t", "s", "x">>,
         <<".", "c", "s", "s", "x">>, <<".", "p", "y">>, <<>>}
Closers == {<<>>, <<" ", "*", "/">>, <<" ", "x">>, <<"\n">>}

Comments ==
    [lead : Leads, opener : Openers, gap : Gaps, top : Tops, stem : Stems, ext : Exts,
     closer : Closers]

\* the path written in the line
path_of(c) == c.top \o c.stem \o c.ext

\* the characters of the line
line_of(c) == c.lead \o c.opener \o c.gap \o path_of(c) \o c.closer

\* The lines a raw body is made of: an empty line, a line of blanks, path
\* comments of both styles, a comment of a path with a longer extension, a
\* comment that carries no path, and lines of code.
BodyLines ==
    {<<>>, <<" ">>,
     <<"/", "/", " ", "s", "r", "c", "/", "a", ".", "j", "s">>,
     <<"/", "/", " ", "s", "r", "c", "/", "a", ".", "j", "s", "x">>,
     <<"/", "*", " ", "s", "r", "c", "/", "a", ".", "c", "s", "s", " ", "*", "/">>,
     <<"/", "/", " ", "S", "o", "m", "e">>,
     <<"x">>, <<" ", "y", " ">>}

RawBodies == UNION {[1..n -> BodyLines] : n \in 1..MaxLines}

(***************************************************************************)
(* Views of the store.                                                     *)
(***************************************************************************)
\* the (path, body) pairs of a list of CodeBlock references, in order
Content(g, list) == [i \in 1..Len(list) |-> <<g.heap[list[i]].path, g.heap[list[i]].code>>]

\* Assets.paths
paths(g, list) == [i \in 1..Len(list) |-> g.heap[list[i]].path]

\* os.path.splitext(os.path.basename(path))[0].lower()
asset_base(path) ==
    CASE path = "src/a.js" -> "a"
      [] path = "src/sub/b.js" -> "b"
      [] path = "srcx/a.js" -> "a"
      [] path = "lib/a.js" -> "a"
      [] path = "src//a.js" -> "a"

\* the scores fuzz.partial_ratio can give a base name against the text, an
\* integer of 0..100 each, and the thresholds in hundredths
Scores == {0, 69, 70, 100}
Thresholds == {0, 70, 100}
Ratios == [{"a", "b"} -> Scores]

RECURSIVE match_loop(_, _, _, _, _)
\* the loop of Assets.match over the remaining assets
match_loop(g, list, partial_ratio, threshold, matched_assets) ==
    IF list = <<>> THEN matched_assets
    ELSE LET asset == g.heap[Head(list)]
             score == partial_ratio[asset_base(asset.path)]
         IN match_loop(g, Tail(list), partial_ratio, threshold,
                       IF score >= threshold
                       THEN Append(matched_assets, Head(list))
                       ELSE matched_assets)

\* match that returns the matched assets by falling score
match_by_score(g, list, partial_ratio, threshold) ==
    LET m == match_loop(g, list, partial_ratio, threshold, <<>>)
        score(id) == partial_ratio[asset_base(g.heap[id].path)]
        above(i) == Cardinality({j \in 1..Len(m) :
                        score(m[j]) > score(m[i]) \/ (score(m[j]) = score(m[i]) /\ j < i)})
    IN [n \in 1..Len(m) |-> m[CHOOSE i \in 1..Len(m) : above(i) = n - 1]]

\* Assets.match: the new Assets it returns, of references to the same CodeBlock
\* objects; score / 100.0 >= threshold is compared in hundredths
match(g, list, partial_ratio, threshold) ==
    match_loop(g, list, partial_ratio, threshold, <<>>)

Live(g) == Content(g, g.assets)

\* the snapshot of commits[i] (Python index i)
Snap(g, i) == Content(g, g.commits[i + 1].snapshot)

(***************************************************************************)
(* davai/git.py: the history operations, as functions of the store.        *)
(***************************************************************************)
\* Git.__init__
GitInit ==
    [heap |-> <<>>, assets |-> <<>>, cls |-> "Assets",
     commits |-> <<>>, head |-> -1, redo_stack |-> <<>>]

\* add_asset without the search for an asset of the same path
add_asset_append(g, filename, content) ==
    [g EXCEPT !.heap = Append(@, CodeBlock(filename, content)),
              !.assets = Append(@, Len(g.heap) + 1)]

\* add_asset that drops the asset of the same path and appends the new one
add_asset_move(g, filename, content) ==
    [g EXCEPT !.heap = Append(@, CodeBlock(filename, content)),
              !.assets = Append(SelectSeq(@, LAMBDA id : g.heap[id].path /= filename),
                                Len(g.heap) + 1)]

\* Git.add_asset
add_asset(g, filename, content) ==
    LET id == Len(g.heap) + 1
        h == Append(g.heap, CodeBlock(filename, content))
        hits == {i \in 1..Len(g.assets) : g.heap[g.assets[i]].path = filename}
    IN IF hits /= {}
       THEN [g EXCEPT !.heap = h, !.assets[Min(hits)] = id]
       ELSE [g EXCEPT !.heap = h, !.assets = Append(@, id)]

\* remove_asset that cuts the list at the first asset of the path
remove_asset_cut(g, filename) ==
    LET hits == {i \in 1..Len(g.assets) : g.heap[g.assets[i]].path = filename}
    IN [g EXCEPT !.assets = IF hits = {} THEN @ ELSE SubSeq(@, 1, Min(hits) - 1),
                 !.cls = "list"]

\* Git.remove_asset
remove_asset(g, filename) ==
    [g EXCEPT !.assets = SelectSeq(@, LAMBDA id : g.heap[id].path /= filename),
              !.cls = "list"]

\* commit that forgets to clear the redo stack
commit_keep_redo(g, message) ==
    [g EXCEPT !.commits = Append(SubSeq(@, 1, g.head + 1),
                                 [snapshot |-> g.assets, message |-> message]),
              !.head = @ + 1]

\* commit that sets head to the length of the log
commit_head_len(g, message) ==
    [g EXCEPT !.commits = Append(SubSeq(@, 1, g.head + 1),
                                 [snapshot |-> g.assets, message |-> message]),
              !.head = g.head + 2,
              !.redo_stack = <<>>]

\* commit that appends without discarding the entries after head
commit_no_truncate(g, message) ==
    [g EXCEPT !.commits = Append(@, [snapshot |-> g.assets, message |-> message]),
              !.head = @ + 1,
              !.redo_stack = <<>>]

\* Git.commit
commit(g, message) ==
    [g EXCEPT !.commits = Append(SubSeq(@, 1, g.head + 1),
                                 [snapshot |-> g.assets, message |-> message]),
              !.head = @ + 1,
              !.redo_stack = <<>>]

\* undo that restores the assets before moving head
undo_stale(g) ==
    IF g.head > 0
    THEN [g EXCEPT !.redo_stack = Append(@, g.commits[g.head + 1]),
                   !.head = @ - 1,
                   !.assets = g.commits[g.head + 1].snapshot,
                   !.cls = "list"]
    ELSE g

\* undo that moves head before pushing onto the redo stack
undo_push_prev(g) ==
    IF g.head > 0
    THEN [g EXCEPT !.redo_stack = Append(@, g.commits[g.head]),
                   !.head = @ - 1,
                   !.assets = g.commits[g.head].snapshot,
                   !.cls = "list"]
    ELSE g

\* undo guarded by head >= 0 (commits[-1] is the last entry of the log)
undo_off_by_one(g) ==
    IF g.head >= 0
    THEN [g EXCEPT !.redo_stack = Append(@, g.commits[g.head + 1]),
                   !.head = @ - 1,
                   !.assets = g.commits[IF g.head = 0 THEN Len(g.commits)
                                        ELSE g.head].snapshot,
                   !.cls = "list"]
    ELSE g

\* Git.undo
undo(g) ==
    IF g.head > 0
    THEN [g EXCEPT !.redo_stack = Append(@, g.commits[g.head + 1]),
                   !.head = @ - 1,
                   !.assets = g.commits[g.head].snapshot,
                   !.cls = "list"]
    ELSE g

\* redo that does not restore the assets
redo_no_restore(g) ==
    IF g.redo_stack /= <<>>
    THEN [g EXCEPT !.redo_stack = SubSeq(@, 1, Len(@) - 1),
                   !.head = @ + 1,
                   !.commits = Append(@, g.redo_stack[Len(g.redo_stack)])]
    ELSE g

\* redo that takes the oldest entry of the redo stack (pop(0))
redo_fifo(g) ==
    IF g.redo_stack /= <<>>
    THEN [g EXCEPT !.redo_stack = Tail(@),
                   !.head = @ + 1,
                   !.commits = Append(@, g.redo_stack[1]),
                   !.assets = g.redo_stack[1].snapshot,
                   !.cls = "list"]
    ELSE g

\* Git.redo
redo(g) ==
    IF g.redo_stack /= <<>>
    THEN LET redo_commit == g.redo_stack[Len(g.redo_stack)]
         IN [g EXCEPT !.redo_stack = SubSeq(@, 1, Len(@) - 1),
                      !.head = @ + 1,
                      !.commits = Append(@, redo_commit),
                      !.assets = redo_commit.snapshot,
                      !.cls = "list"]
    ELSE g

\* asset.body.code = code, on the i-th asset of the live list (Python index i)
set_body(g, i, code) == [g EXCEPT !.heap[g.assets[i + 1]].code = code]

(***************************************************************************)
(* The directory tree (os.path, os.walk, open) over the model's paths.     *)
(***************************************************************************)
\* every path string the model handles: the asset paths, the directories, and
\* the names os.path.join(root, os.path.relpath(p, root)) gives outside root
Names == Paths \cup Dirs \cup {"src/../srcx/a.js", "src/../srcx"}

\* the filenames a caller of add_asset can pass beside the paths of files of
\* the trees: a path outside root that does not start with the characters of
\* root, and a path under root with a doubled separator
StorePaths == Paths \cup {"lib/a.js", "src//a.js"}

\* str.split("/")
Parts(s) ==
    CASE s = "src" -> <<"src">>
      [] s = "src/sub" -> <<"src", "sub">>
      [] s = "srcx" -> <<"srcx">>
      [] s = "src/a.js" -> <<"src", "a.js">>
      [] s = "src/sub/b.js" -> <<"src", "sub", "b.js">>
      [] s = "srcx/a.js" -> <<"srcx", "a.js">>
      [] s = "src/../srcx" -> <<"src", "..", "srcx">>
      [] s = "src/../srcx/a.js" -> <<"src", "..", "srcx", "a.js">>
      [] s = "lib" -> <<"lib">>
      [] s = "lib/a.js" -> <<"lib", "a.js">>
      [] s = "src/../lib" -> <<"src", "..", "lib">>
      [] s = "src/../lib/a.js" -> <<"src", "..", "lib", "a.js">>
      [] s = "src//a.js" -> <<"src", "", "a.js">>

\* "/".join(parts)
Name(parts) ==
    CASE parts = <<"src">> -> "src"
      [] parts = <<"src", "sub">> -> "src/sub"
      [] parts = <<"srcx">> -> "srcx"
      [] parts = <<"src", "a.js">> -> "src/a.js"
      [] parts = <<"src", "sub", "b.js">> -> "src/sub/b.js"
      [] parts = <<"srcx", "a.js">> -> "srcx/a.js"
      [] parts = <<"src", "..", "srcx">> -> "src/../srcx"
      [] parts = <<"src", "..", "srcx", "a.js">> -> "src/../srcx/a.js"
      [] parts = <<"lib">> -> "lib"
      [] parts = <<"lib", "a.js">> -> "lib/a.js"
      [] parts = <<"src", "..", "lib">> -> "src/../lib"
      [] parts = <<"src", "..", "lib", "a.js">> -> "src/../lib/a.js"

\* the first characters of a string, as many as the root has
Prefix(s) ==
    CASE Parts(s)[1] = "src" -> <<"s", "r", "c">>
      [] Parts(s)[1] = "srcx" -> <<"s", "r", "c">>
      [] OTHER -> <<>>

\* filename.startswith(self.root)
startswith_root(filename) == Prefix(filename) = <<"s", "r", "c">>

\* whether the path lies in the tree of root
UnderRoot(p) == Parts(p)[1] = Root

\* the paths in the tree of root
RootPaths == {p \in Paths : UnderRoot(p)}

\* os.path.relpath(path, root), as parts; root has one part, and an empty
\* part (a doubled separator) is dropped
relpath(path) ==
    LET parts == SelectSeq(Parts(path), LAMBDA part : part /= "")
    IN IF UnderRoot(path) THEN Tail(parts) ELSE <<"..">> \o parts

\* os.path.join(self.root, os.path.relpath(filename, self.root))
filepath_of(filename) == Name(<<Root>> \o relpath(filename))

\* os.path.dirname
dirname(p) == Name(SubSeq(Parts(p), 1, Len(Parts(p)) - 1))

\* whether a name goes up from its first directory
Dotted(s) == Len(Parts(s)) >= 2 /\ Parts(s)[2] = ".."

\* the file or directory the operating system reaches by a name
Resolve(s) == IF Dotted(s) THEN Name(SubSeq(Parts(s), 3, Len(Parts(s)))) ELSE s

\* the operating system resolves d/.. only when d exists
Walkable(s, d) == Dotted(s) => Parts(s)[1] \in d

\* a directory and the directories above it
Ancestors(d) == {Name(SubSeq(Parts(d), 1, k)) : k \in 1..Len(Parts(d))}

\* the file p exists in the tree (the trees hold files of Paths only)
exists(f, p) == p \in DOMAIN f /\ f[p] /= NoFile

\* os.path.exists(name) for the name of a file
file_exists(f, d, name) == Walkable(name, d) /\ exists(f, Resolve(name))

\* os.path.exists(name) for the name of a directory
dir_exists(d, name) == Walkable(name, d) /\ Resolve(name) \in d

\* os.makedirs(name), called when os.path.exists(name) is false: the directories
\* that exist afterwards, and whether it raises FileExistsError (for src/../srcx
\* with src missing it creates src and then finds srcx present)
makedirs(d, name) ==
    IF Dotted(name)
    THEN [dirs |-> d \cup {Parts(name)[1], Resolve(name)},
          raised |-> Resolve(name) \in d]
    ELSE [dirs |-> d \cup Ancestors(name), raised |-> FALSE]

\* The directory trees a call can find.  The tree belongs to the user, who edits
\* it between any two calls, so each call takes the tree it finds as an input:
\* fs maps a file path to its content, dirs are the directories that exist.
\* (The set is written as an image, which TLC enumerates once.)
Disks ==
    {t : t \in {d \in [fs : [Paths -> Texts \cup {NoFile}], dirs : SUBSET Dirs] :
                    /\ \A p \in Paths : exists(d.fs, p) => dirname(p) \in d.dirs
                    /\ \A dir \in d.dirs : Ancestors(dir) \subseteq d.dirs}}

\* the trees with nothing outside root: what os.walk(self.root) can tell apart
RootDisks ==
    {t : t \in {d \in Disks :
                    /\ \A p \in Paths : exists(d.fs, p) => UnderRoot(p)
                    /\ \A dir \in d.dirs : UnderRoot(dir)}}

\* every enumeration of a finite set, as sequences
Perms(S) == {s \in [1..Cardinality(S) -> S] : \A x \in S : \E i \in DOMAIN s : s[i] = x}

\* the orders in which os.walk(self.root) can yield the files: top-down, the
\* files of one directory in the order the operating system lists them
WalkOrders(f) ==
    {a \o b : a \in Perms({p \in Paths : dirname(p) = "src" /\ exists(f, p)}),
              b \in Perms({p \in Paths : dirname(p) = "src/sub" /\ exists(f, p)})}

RECURSIVE fetch_files(_, _, _)
\* the loop of Git.fetch over the files in walk order
fetch_files(g, f, order) ==
    IF order = <<>> THEN g
    ELSE fetch_files(add_asset(g, filepath_of(Head(order)), f[Head(order)]), f, Tail(order))

\* fetch that reads the files of the root directory only (os.listdir)
fetch_top(g, f, d, order) ==
    IF Root \in d
    THEN fetch_files(g, f, SelectSeq(order, LAMBDA p : dirname(p) = Root))
    ELSE g

\* fetch that loads the tree into an emptied list
fetch_reload(g, f, d, order) ==
    IF Root \in d THEN fetch_files([g EXCEPT !.assets = <<>>], f, order) ELSE g

\* Git.fetch
fetch(g, f, d, order) == IF Root \in d THEN fetch_files(g, f, order) ELSE g

RECURSIVE push_assets(_, _, _)
\* the loop of Git.push over the remaining assets; disk is the tree so far with
\* the files written (writes) and whether an exception ended the loop (raised)
push_assets(g, list, disk) ==
    IF list = <<>> \/ disk.raised THEN disk
    ELSE LET asset == g.heap[Head(list)]
             filename == asset.path
             content == asset.code
             filepath == filepath_of(filename)
             directory == dirname(filepath)
             skip == \/ ~startswith_root(filename)
                     \/ (/\ file_exists(disk.fs, disk.dirs, filepath)
                         /\ disk.fs[Resolve(filepath)] = content)
             made == IF dir_exists(disk.dirs, directory)
                     THEN [dirs |-> disk.dirs, raised |-> FALSE]
                     ELSE makedirs(disk.dirs, directory)
             written == IF made.raised
                        THEN [disk EXCEPT !.dirs = made.dirs, !.raised = TRUE]
                        ELSE [disk EXCEPT !.dirs = made.dirs,
                                          !.fs[Resolve(filepath)] = content,
                                          !.writes = @ \cup {Resolve(filepath)}]
         IN push_assets(g, Tail(list), IF skip THEN disk ELSE written)

\* how an OSError can leave the file of the asset push failed at: as it was
\* (open raised), or created or cut to nothing (write raised)
Lefts == {"as it was", "emptied"}

\* Git.push in which the file system fails at the asset of index k (from 1)
\* while it writes the file: the loop ran over the assets before it and the
\* exception ends the call.  When push has nothing to write for that asset,
\* nothing fails and the loop runs to its end.
push_failing(g, f, d, k, left) ==
    LET before == push_assets(g, SubSeq(g.assets, 1, k - 1),
                              [fs |-> f, dirs |-> d, writes |-> {}, raised |-> FALSE])
        asset == g.heap[g.assets[k]]
        filepath == filepath_of(asset.path)
        directory == dirname(filepath)
        skip == \/ ~startswith_root(asset.path)
                \/ (/\ file_exists(before.fs, before.dirs, filepath)
                    /\ before.fs[Resolve(filepath)] = asset.code)
        made == IF dir_exists(before.dirs, directory)
                THEN [dirs |-> before.dirs, raised |-> FALSE]
                ELSE makedirs(before.dirs, directory)
    IN IF before.raised \/ skip
       THEN push_assets(g, SubSeq(g.assets, k, Len(g.assets)), before)
       ELSE [before EXCEPT !.dirs = made.dirs,
                           !.raised = TRUE,
                           !.fs[Resolve(filepath)] =
                               IF left = "emptied" /\ ~made.raised THEN <<"">> ELSE @]

\* push that returns after the first asset
push_first(g, f, d) ==
    push_assets(g, IF g.assets = <<>> THEN <<>> ELSE <<Head(g.assets)>>,
                [fs |-> f, dirs |-> d, writes |-> {}, raised |-> FALSE])

\* Git.push
push(g, f, d) == push_assets(g, g.assets, [fs |-> f, dirs |-> d, writes |-> {}, raised |-> FALSE])

RECURSIVE remove_all(_, _)
\* the second loop of Git.clean
remove_all(g, to_remove) ==
    IF to_remove = <<>> THEN g
    ELSE remove_all(remove_asset(g, Head(to_remove)), Tail(to_remove))

\* clean that removes only the first asset it finds without a file
clean_first(g, f, d) ==
    LET to_remove == SelectSeq(paths(g, g.assets),
                               LAMBDA p : ~file_exists(f, d, filepath_of(p)))
    IN IF to_remove = <<>> THEN g ELSE remove_asset(g, Head(to_remove))

\* clean that looks only at the assets push writes (path starting with root)
clean_under_root(g, f, d) ==
    LET to_remove == SelectSeq(paths(g, g.assets),
                               LAMBDA p : /\ startswith_root(p)
                                          /\ ~file_exists(f, d, filepath_of(p)))
    IN remove_all(g, to_remove)

\* clean that also drops the snapshots kept for redo
clean_reset(g, f, d) ==
    LET to_remove == SelectSeq(paths(g, g.assets),
                               LAMBDA p : ~file_exists(f, d, filepath_of(p)))
    IN [remove_all(g, to_remove) EXCEPT !.redo_stack = <<>>]

\* Git.clean
clean(g, f, d) ==
    LET to_remove == SelectSeq(paths(g, g.assets),
                               LAMBDA p : ~file_exists(f, d, filepath_of(p)))
    IN remove_all(g, to_remove)

\* prune that looks up the path relative to root, which no asset has
prune_relative(g, f, d) ==
    IF Root \in d
    THEN [p \in Paths |-> IF UnderRoot(p) /\ exists(f, p) THEN NoFile ELSE f[p]]
    ELSE f

\* Git.prune: the files left on disk
prune(g, f, d) ==
    IF Root \in d
    THEN [p \in Paths |-> IF /\ UnderRoot(p)
                             /\ exists(f, p)
                             /\ filepath_of(p) \notin Range(paths(g, g.assets))
                          THEN NoFile ELSE f[p]]
    ELSE f

(***************************************************************************)
(* CodeBlock objects no list references any more are freed, and the        *)
(* remaining ones are numbered in the order the lists reach them: a        *)
(* reference is only ever compared for identity.                           *)
(***************************************************************************)
RECURSIVE SnapRefs(_)
SnapRefs(cs) == IF cs = <<>> THEN <<>> ELSE Head(cs).snapshot \o SnapRefs(Tail(cs))

Refs(g) == g.assets \o SnapRefs(g.commits) \o SnapRefs(g.redo_stack)

RECURSIVE Distinct(_, _)
\* the references of r in the order of their first occurrence
Distinct(r, seen) ==
    IF r = <<>> THEN <<>>
    ELSE IF Head(r) \in seen THEN Distinct(Tail(r), seen)
         ELSE <<Head(r)>> \o Distinct(Tail(r), seen \cup {Head(r)})

Collect(g) ==
    LET old == Distinct(Refs(g), {})
        new == [id \in Range(old) |-> CHOOSE k \in 1..Len(old) : old[k] = id]
        ren(list) == [i \in 1..Len(list) |-> new[list[i]]]
        rec(cs) == [i \in 1..Len(cs) |-> [cs[i] EXCEPT !.snapshot = ren(@)]]
    IN [g EXCEPT !.heap = [k \in 1..Len(old) |-> g.heap[old[k]]],
                 !.assets = ren(@),
                 !.commits = rec(@),
                 !.redo_stack = rec(@)]

(***************************************************************************)
(* The state machine: one action per call on the store.                    *)
(***************************************************************************)
Init ==
    /\ git = GitInit
    /\ added = {}
    /\ onlyAdds = TRUE
    /\ codec = CodecInit

\* a call other than add_asset, leaving the store as g
Call(g) ==
    /\ git' = Collect(g)
    /\ onlyAdds' = FALSE
    /\ added' = {}
    /\ UNCHANGED codec

AddAsset(filename, content) ==
    /\ git' = Collect(add_asset(git, filename, content))
    /\ Len(git'.heap) <= MaxObjs
    /\ added' = (IF onlyAdds THEN added \cup {filename} ELSE {})
    /\ UNCHANGED <<onlyAdds, codec>>

RemoveAsset(filename) == Call(remove_asset(git, filename))

SetBody(i, code) ==
    /\ i < Len(git.assets)
    /\ Call(set_body(git, i, code))

Commit(message) ==
    /\ git.head + 1 < MaxCommits
    /\ Call(commit(git, message))

Undo == Call(undo(git))

Redo ==
    /\ Len(git.commits) < MaxLog
    /\ Call(redo(git))

Fetch(d, order) ==
    /\ git' = Collect(fetch(git, d.fs, d.dirs, order))
    /\ Len(git'.heap) <= MaxObjs
    /\ added' = {}
    /\ onlyAdds' = FALSE
    /\ UNCHANGED codec

Clean(d) == Call(clean(git, d.fs, d.dirs))

\* push and prune write to the tree and only read the store
Push == Call(git)

Prune == Call(git)

\* Spec: the store with its history, holding assets in the tree of root
Next ==
    \/ \E filename \in RootPaths, content \in Texts : AddAsset(filename, content)
    \/ \E filename \in RootPaths : RemoveAsset(filename)
    \/ \E i \in 0..(Cardinality(Paths) - 1), code \in Codes : SetBody(i, code)
    \/ \E message \in Messages : Commit(message)
    \/ Undo
    \/ Redo
    \/ \E d \in RootDisks : \E order \in WalkOrders(d.fs) : Fetch(d, order)
    \/ \E d \in RootDisks : Clean(d)
    \/ Push
    \/ Prune

Spec == Init /\ [][Next]_vars

(***************************************************************************)
(* SpecTree: the store holding assets of any path, a path outside the tree *)
(* of root included, with at most MaxTreeCommits commits and no undo.      *)
(* fetch and clean are called on the trees with nothing outside root; a    *)
(* claim about one call ranges over every tree the call can find.          *)
(***************************************************************************)
CommitTree(message) ==
    /\ git.head + 1 < MaxTreeCommits
    /\ Call(commit(git, message))

NextTree ==
    \/ \E filename \in Paths, content \in Texts : AddAsset(filename, content)
    \/ \E filename \in Paths : RemoveAsset(filename)
    \/ \E i \in 0..(Cardinality(Paths) - 1), code \in Codes : SetBody(i, code)
    \/ \E message \in Messages : CommitTree(message)
    \/ \E d \in RootDisks : \E order \in WalkOrders(d.fs) : Fetch(d, order)
    \/ \E d \in RootDisks : Clean(d)
    \/ Push
    \/ Prune

SpecTree == Init /\ [][NextTree]_vars

(***************************************************************************)
(* SpecLinear: the store after n commits c1..cn, n <= MaxChain, each       *)
(* commit preceded by one edit of the live list (as GitTest.test_undo_redo *)
(* builds it), and from there on undo and redo only.                       *)
(***************************************************************************)
Edits ==
    [op : {"add"}, filename : RootPaths, content : Texts]
        \cup [op : {"remove"}, filename : RootPaths, content : {<<"">>}]

edit(g, e) ==
    IF e.op = "add" THEN add_asset(g, e.filename, e.content)
    ELSE remove_asset(g, e.filename)

RECURSIVE Chain(_, _)
\* the store after the edits es, each followed by a commit
Chain(g, es) ==
    IF es = <<>> THEN g
    ELSE Chain(commit(edit(g, Head(es)), "m1"), Tail(es))

InitLinear ==
    \E n \in 1..MaxChain : \E es \in [1..n -> Edits] :
        /\ git = Collect(Chain(GitInit, es))
        /\ added = {}
        /\ onlyAdds = FALSE
        /\ codec = CodecInit

RedoLinear ==
    /\ Len(git.commits) < 2 * MaxChain - 1
    /\ Call(redo(git))

NextLinear ==
    \/ Undo
    \/ RedoLinear

SpecLinear == InitLinear /\ [][NextLinear]_vars

(***************************************************************************)
(* SpecLive: the live collection alone, holding assets of any path; no     *)
(* commit is made, so undo and redo have nothing to act on.                *)
(***************************************************************************)
\* add_asset; the list holds one object per path, so there is nothing to cap
AddLive(filename, content) ==
    /\ git' = Collect(add_asset(git, filename, content))
    /\ added' = (IF onlyAdds THEN added \cup {filename} ELSE {})
    /\ UNCHANGED <<onlyAdds, codec>>

NextLive ==
    \/ \E filename \in Paths, content \in Texts : AddLive(filename, content)
    \/ \E filename \in Paths : RemoveAsset(filename)
    \/ \E i \in 0..(Cardinality(Paths) - 1), code \in Codes : SetBody(i, code)
    \/ \E d \in RootDisks : \E order \in WalkOrders(d.fs) : Fetch(d, order)
    \/ \E d \in RootDisks : Clean(d)
    \/ Push
    \/ Prune

SpecLive == Init /\ [][NextLive]_vars

(***************************************************************************)
(* SpecSync: the live collection and the tree.  add_asset is given any     *)
(* filename of StorePaths, and the list holds MaxObjs assets at most.      *)
(***************************************************************************)
NextSync ==
    \/ \E filename \in StorePaths, content \in Texts : AddAsset(filename, content)
    \/ \E filename \in StorePaths : RemoveAsset(filename)
    \/ \E d \in RootDisks : \E order \in WalkOrders(d.fs) : Fetch(d, order)
    \/ \E d \in RootDisks : Clean(d)
    \/ Push
    \/ Prune

SpecSync == Init /\ [][NextSync]_vars

(***************************************************************************)
(* SpecStore: the store alone, driven by the calls that take no tree.      *)
(***************************************************************************)
NextStore ==
    \/ \E filename \in RootPaths, content \in Texts : AddAsset(filename, content)
    \/ \E filename \in RootPaths : RemoveAsset(filename)
    \/ \E message \in Messages : Commit(message)
    \/ Undo
    \/ Redo

SpecStore == Init /\ [][NextStore]_vars

(***************************************************************************)
(* davai/base_cli.py: the commands of the prompt.                          *)
(***************************************************************************)
\* user_input.strip().lower() of what the user types at the prompt
strip_lower(user_input) ==
    CASE user_input = " Y" -> "y"
      [] user_input = "yes" -> "yes"

\* what the user types when asked 'Integrate ...? (y/n)'
Answers == {" Y", "yes"}

\* the argument of the task command
Args == {"", "t"}

\* the scores of the base names against the argument, around the default
\* threshold of match
TaskRatios == [{"a", "b"} -> {69, 70}]

\* the fenced blocks of the replies the transport function returns to a task
TaskItems ==
    [kind : {"block"}, tag : {"javascript"},
     content : {<<"// src/a.js", "x">>, <<"// src/a.js", "y">>}]

TaskReplies == UNION {[1..n -> TaskItems] : n \in 0..MaxBlocks}

\* the asset of the path in g.assets: its position, or 0 (None)
existing_asset(g, path) ==
    LET hits == {i \in 1..Len(g.assets) : g.heap[g.assets[i]].path = path}
    IN IF hits = {} THEN 0 ELSE Min(hits)

RECURSIVE integrate_loop(_, _, _, _)
\* the loop of do_task over new_assets from index i on; answers[i] is what the
\* user types if asked about new_assets[i]
integrate_loop(g, new_assets, answers, i) ==
    IF i > Len(new_assets) THEN g
    ELSE LET new_asset == new_assets[i]
             at == existing_asset(g, new_asset.path)
             integrated == add_asset(g, new_asset.path, new_asset.code)
             next == IF at /= 0
                     THEN IF g.heap[g.assets[at]].code = new_asset.code THEN g
                          ELSE IF strip_lower(answers[i]) = "y" THEN integrated
                          ELSE g
                     ELSE integrated
         IN integrate_loop(next, new_assets, answers, i + 1)

\* do_task that integrates every changed asset without asking
integrate_unasked(g, new_assets, answers) ==
    integrate_loop(g, new_assets, [i \in DOMAIN new_assets |-> " Y"], 1)

\* do_task, lines 156-180: the store after the loop over new_assets
integrate(g, new_assets, answers) == integrate_loop(g, new_assets, answers, 1)

\* what the prompt holds beside the store when it starts: no path tracked, no
\* task run
CliInit ==
    [kind |-> "cli", asset_paths |-> {}, stage |-> "init",
     before |-> <<>>, new_assets |-> <<>>, answers |-> <<>>, after |-> <<>>,
     pushes |-> 0, pushed |-> <<>>]

\* BaseCLI.__init__: Git() and fetch() of the tree it finds
InitCLI ==
    \E d \in RootDisks : \E order \in WalkOrders(d.fs) :
        /\ git = Collect(fetch(GitInit, d.fs, d.dirs, order))
        /\ added = {}
        /\ onlyAdds = FALSE
        /\ codec = CliInit

\* do_task(arg) that returns early: no argument, or no asset matches it
DoTaskReturn(arg, partial_ratio) ==
    /\ arg = "" \/ match(git, git.assets, partial_ratio, 70) = <<>>
    /\ codec' = [codec EXCEPT !.stage = "task",
                              !.before = Live(git),
                              !.new_assets = <<>>,
                              !.answers = <<>>,
                              !.after = Live(git),
                              !.pushes = 0,
                              !.pushed = <<>>]
    /\ UNCHANGED <<git, added, onlyAdds>>

\* do_task(arg) with assets matched: the reply is what the transport function
\* returns, answers what the user types at the prompts.  The record keeps the
\* live list before and after, the assets extracted, and the calls of push.
DoTask(arg, partial_ratio, reply, answers) ==
    LET assets == match(git, git.assets, partial_ratio, 70)
        new_assets == extract_code_blocks(text_of(reply))
    IN /\ arg /= ""
       /\ assets /= <<>>
       /\ git' = Collect(integrate(git, new_assets, answers))
       /\ codec' = [codec EXCEPT
                       !.asset_paths = @ \cup Range(paths(git, assets))
                                         \cup {new_assets[i].path : i \in DOMAIN new_assets},
                       !.stage = "task",
                       !.before = Live(git),
                       !.new_assets = new_assets,
                       !.answers = answers,
                       !.after = Live(git'),
                       !.pushes = 1,
                       !.pushed = Live(git')]
       /\ UNCHANGED <<added, onlyAdds>>

\* git_reset_task(action): the method of the store is called; the request for
\* the tracked assets changes nothing of the store
git_reset_task(g, stage, follows) ==
    /\ git' = Collect(g)
    /\ codec' = [codec EXCEPT !.stage = IF codec.stage = follows THEN stage ELSE "other"]
    /\ UNCHANGED <<added, onlyAdds>>

DoFetch(d, order) == git_reset_task(fetch(git, d.fs, d.dirs, order), "other", "")

DoUndo == git_reset_task(undo(git), "undo", "task")

DoRedo == git_reset_task(redo(git), "redo", "undo")

\* do_clear
DoClear ==
    /\ codec' = [codec EXCEPT !.asset_paths = {}, !.stage = "other"]
    /\ UNCHANGED <<git, added, onlyAdds>>

(***************************************************************************)
(* SpecCLI: the prompt, from its start on the tree it finds; the commands  *)
(* are typed in any order.                                                 *)
(***************************************************************************)
NextCLI ==
    \/ \E arg \in Args, partial_ratio \in TaskRatios : DoTaskReturn(arg, partial_ratio)
    \/ \E arg \in Args, partial_ratio \in TaskRatios, reply \in TaskReplies :
          \E answers \in [DOMAIN reply -> Answers] : DoTask(arg, partial_ratio, reply, answers)
    \/ \E d \in RootDisks : \E order \in WalkOrders(d.fs) : DoFetch(d, order)
    \/ DoUndo
    \/ DoRedo
    \/ DoClear

SpecCLI == InitCLI /\ [][NextCLI]_vars

(***************************************************************************)
(* SpecCodec: fenced text.  A reply of MaxItems items at most arrives, or  *)
(* an asset is rendered as the requests render it, and the assets of the   *)
(* text are extracted.                                                     *)
(***************************************************************************)
\* response_text = self.transport_func(request.request_text)
Reply(items) ==
    /\ codec' = [CodecInit EXCEPT !.items = items, !.response_text = text_of(items)]
    /\ UNCHANGED <<git, added, onlyAdds>>

\* repr(code_block)
Render(path, body) ==
    /\ codec' = [CodecInit EXCEPT !.source = <<path, body>>,
                                  !.response_text = repr([path |-> path, code |-> body])]
    /\ UNCHANGED <<git, added, onlyAdds>>

\* new_assets = response.extract_code_blocks()
Extract ==
    /\ codec.response_text /= <<>>
    /\ ~codec.extracted
    /\ codec' = [codec EXCEPT !.assets = extract_code_blocks(codec.response_text),
                              !.extracted = TRUE]
    /\ UNCHANGED <<git, added, onlyAdds>>

NextCodec ==
    \/ \E items \in Replies : Reply(items)
    \/ \E path \in Paths, body \in Bodies : Render(path, body)
    \/ Extract

SpecCodec == Init /\ [][NextCodec]_vars

(***************************************************************************)
(* SpecLines: Head and Body of davai/code_block.py applied to lines of     *)
(* characters; codec holds the argument of the call and what it returned.  *)
(***************************************************************************)
InitLines ==
    /\ git = GitInit
    /\ added = {}
    /\ onlyAdds = TRUE
    /\ codec = [kind |-> "none"]

\* head = Head.from_comment(line)
FromComment(c) ==
    /\ codec.kind = "none"
    /\ codec' = [kind |-> "comment", parts |-> c, line |-> line_of(c),
                 head |-> Head_from_comment(line_of(c))]
    /\ UNCHANGED <<git, added, onlyAdds>>

\* head.as_comment() and head.code_type, of the head that from_comment returned,
\* and from_comment of that comment
AsComment ==
    /\ codec.kind = "comment"
    /\ codec.head /= <<>>
    /\ codec' = [kind |-> "rendered", path |-> codec.head,
                 comment |-> Head_as_comment(codec.head),
                 code_type |-> Head_code_type(codec.head),
                 head |-> Head_from_comment(Head_as_comment(codec.head))]
    /\ UNCHANGED <<git, added, onlyAdds>>

\* body = Body(code)
NewBody(code) ==
    /\ codec.kind = "none"
    /\ codec' = [kind |-> "body", raw |-> code, code |-> Body_extract_body(code)]
    /\ UNCHANGED <<git, added, onlyAdds>>

NextLines ==
    \/ \E c \in Comments : FromComment(c)
    \/ AsComment
    \/ \E code \in RawBodies : NewBody(code)

SpecLines == InitLines /\ [][NextLines]_vars

(***************************************************************************)
(* The claims.  A claim about what a call does is stated of the call       *)
(* applied to the store of every reachable state.                          *)
(***************************************************************************)
\* the only asset of a collection: path p with body b
One(p, b) == <<(<<p, b>>)>>

\* the snapshots the history holds, by content: the commit log, the redo stack
AllSnaps(g) ==
    <<[i \in 1..Len(g.commits) |-> Content(g, g.commits[i].snapshot)],
      [i \in 1..Len(g.redo_stack) |-> Content(g, g.redo_stack[i].snapshot)]>>

RECURSIVE UndoN(_, _)
\* k calls of undo
UndoN(g, k) == IF k = 0 THEN g ELSE UndoN(undo(g), k - 1)

RECURSIVE RedoN(_, _)
\* k calls of redo
RedoN(g, k) == IF k = 0 THEN g ELSE RedoN(redo(g), k - 1)

\* C1: with head on the second or a later commit and the live collection equal
\* to the head snapshot, undo() leaves the live collection equal (same assets,
\* same order) to the snapshot of the previous commit, and an immediately
\* following redo() leaves it equal to the snapshot that was head before.
C1_UndoThenRedo ==
    (git.head >= 1 /\ Live(git) = Snap(git, git.head)) =>
        LET u == undo(git)
            r == redo(u)
        IN /\ Live(u) = Snap(git, git.head - 1)
           /\ Live(r) = Snap(git, git.head)

\* an undo and a redo have run since the last commit (the log holds the entry
\* redo appended), between two snapshots that differ
C1_Witness ==
    /\ git.head >= 1
    /\ Live(git) = Snap(git, git.head)
    /\ Snap(git, git.head) /= Snap(git, git.head - 1)
    /\ git.redo_stack = <<>>
    /\ Len(git.commits) > git.head + 1
    /\ Live(undo(git)) /= Live(git)

\* C2 as claimed: after add_or_update(p, b1); commit; add_or_update(p, b2) on
\* an empty store, undo() leaves p with body b1 and redo() then leaves p with b2.
C2_AsClaimed ==
    \A p \in Paths, b1, b2 \in Codes :
        (/\ git.head = 0 /\ Len(git.commits) = 1 /\ git.redo_stack = <<>>
         /\ Snap(git, 0) = One(p, b1)
         /\ Live(git) = One(p, b2))
        => /\ Live(undo(git)) = One(p, b1)
           /\ Live(redo(undo(git))) = One(p, b2)

\* C2 amended: after add_or_update(p, b1); commit; add_or_update(p, b2); commit
\* on an empty store, undo() leaves p with body b1 and redo() then leaves p with
\* body b2.
C2_AfterSecondCommit ==
    \A p \in Paths, b1, b2 \in Codes :
        (/\ git.head = 1 /\ git.redo_stack = <<>>
         /\ Snap(git, 0) = One(p, b1)
         /\ Snap(git, 1) = One(p, b2)
         /\ Live(git) = One(p, b2))
        => /\ Live(undo(git)) = One(p, b1)
           /\ Live(redo(undo(git))) = One(p, b2)

\* the scenario of C2 with the second commit, after the undo and the redo
C2_Witness ==
    \E p \in Paths, b1, b2 \in Codes :
        /\ b1 /= b2
        /\ git.head = 1 /\ git.redo_stack = <<>> /\ Len(git.commits) = 3
        /\ Snap(git, 0) = One(p, b1)
        /\ Snap(git, 1) = One(p, b2)
        /\ Live(git) = One(p, b2)

\* C3 as claimed: in every reachable state undo() then redo() leaves the live
\* collection content as it was before the undo.
C3_AsClaimed == Live(redo(undo(git))) = Live(git)

\* C3 amended: with head > 0, undo() then redo() leaves head where it was and the
\* live collection equal to the head snapshot, which is what the live collection
\* was before the undo exactly when it held no change made since that snapshot.
C3_UndoRedoRestoresHead ==
    git.head > 0 =>
        LET r == redo(undo(git))
        IN /\ r.head = git.head
           /\ Live(r) = Snap(git, git.head)
           /\ (Live(r) = Live(git)) <=> (Live(git) = Snap(git, git.head))

\* the live collection holds a change made since the head snapshot, and undo()
\* then redo() loses it
C3_Witness ==
    /\ git.head > 0
    /\ Live(git) /= Snap(git, git.head)
    /\ Live(redo(undo(git))) = Snap(git, git.head)
    /\ Live(redo(undo(git))) /= Live(git)

\* C4: commit empties the redo stack and keeps of the log exactly the entries up
\* to head, followed by the new one, so that a redo() right after the commit
\* changes nothing (live collection, log, head); in particular after undos.
C4_CommitDiscardsRedo ==
    \A m \in Labels :
        LET c == commit(git, m)
        IN /\ c.redo_stack = <<>>
           /\ Len(c.commits) = git.head + 2
           /\ \A i \in 1..(git.head + 1) : c.commits[i] = git.commits[i]
           /\ redo(c) = c

\* an undo has left an entry to redo, and the commit replaces it in the log
C4_Witness ==
    /\ git.redo_stack /= <<>>
    /\ git.head + 1 < Len(git.commits)
    /\ redo(git) /= git
    /\ LET c == commit(git, "m1")
       IN /\ redo(c) = c
          /\ Snap(c, c.head) /= Snap(git, c.head)

\* C5: head is -1 exactly when the commit log is empty, and otherwise
\* 0 <= head < len(commits).
C5_HeadValid ==
    /\ (git.head = -1) <=> (git.commits = <<>>)
    /\ git.commits /= <<>> => (0 <= git.head /\ git.head < Len(git.commits))

\* head is back on the first commit, with entries after it in the log and on the
\* redo stack
C5_Witness ==
    /\ git.head = 0
    /\ Len(git.commits) = 3
    /\ git.redo_stack /= <<>>

\* C6: after commit(label), head is the last index of the log, commits[head]
\* carries the label and a snapshot equal to the live collection of the call,
\* the entries up to the old head are unchanged and so is the live collection.
C6_CommitRecords ==
    \A m \in Labels :
        LET c == commit(git, m)
        IN /\ c.head = Len(c.commits) - 1
           /\ c.commits[c.head + 1].message = m
           /\ Snap(c, c.head) = Live(git)
           /\ \A i \in 0..git.head :
                /\ Snap(c, i) = Snap(git, i)
                /\ c.commits[i + 1].message = git.commits[i + 1].message
           /\ Live(c) = Live(git)

\* a commit made while the log held entries after head
C6_Witness ==
    /\ git.head >= 0
    /\ Len(git.commits) > git.head + 1
    /\ Live(git) /= <<>>
    /\ LET c == commit(git, "m2")
       IN /\ c.head = git.head + 1
          /\ Snap(c, c.head) = Live(git)
          /\ Snap(c, c.head) /= Snap(git, c.head)

\* C7 as claimed: no operation on the live collection (add_or_update,
\* remove_asset, fetch, clean, assigning a body to an asset of the live
\* collection) changes the paths or bodies of a snapshot in the commit log or
\* on the redo stack.
C7_SnapshotsImmutable ==
    /\ \A f \in Paths, c \in Texts : AllSnaps(add_asset(git, f, c)) = AllSnaps(git)
    /\ \A f \in Paths : AllSnaps(remove_asset(git, f)) = AllSnaps(git)
    /\ \A d \in Disks :
         /\ \A order \in WalkOrders(d.fs) :
              AllSnaps(fetch(git, d.fs, d.dirs, order)) = AllSnaps(git)
         /\ AllSnaps(clean(git, d.fs, d.dirs)) = AllSnaps(git)
    /\ \A i \in 0..(Len(git.assets) - 1), code \in Codes :
         AllSnaps(set_body(git, i, code)) = AllSnaps(git)

\* C8: undo() with head <= 0 and redo() with an empty redo stack change nothing.
C8_NothingToUndoOrRedo ==
    /\ git.head <= 0 => undo(git) = git
    /\ git.redo_stack = <<>> => redo(git) = git

\* one commit, nothing to redo, and a live collection changed since the commit
C8_Witness ==
    /\ git.head = 0
    /\ git.redo_stack = <<>>
    /\ Live(git) /= Snap(git, 0)
    /\ undo(git) = git
    /\ redo(git) = git

\* C9: after commits c1..cn (head = n - 1, nothing to redo, live collection equal
\* to cn's snapshot), k undos leave head at n-1-k on the snapshot of that commit,
\* n-1 of them at c1, and k redos from there leave head at k on the snapshot of
\* that commit, n-1 of them back at cn: the last undone is the first redone.
C9_UndoAllRedoAll ==
    (git.head >= 0 /\ git.redo_stack = <<>> /\ Live(git) = Snap(git, git.head)) =>
        LET n == git.head + 1
            first == UndoN(git, n - 1)
        IN /\ \A k \in 0..(n - 1) :
                /\ UndoN(git, k).head = n - 1 - k
                /\ Live(UndoN(git, k)) = Snap(git, n - 1 - k)
           /\ \A k \in 0..(n - 1) :
                /\ RedoN(first, k).head = k
                /\ Live(RedoN(first, k)) = Snap(git, k)

\* three commits with three different snapshots, after two undos and two redos
\* (the log ends with c2, c3 as the redos appended them)
C9_Witness ==
    /\ git.head = 2
    /\ git.redo_stack = <<>>
    /\ Len(git.commits) = 5
    /\ git.commits[4] = git.commits[2]
    /\ git.commits[5] = git.commits[3]
    /\ Live(git) = Snap(git, 2)
    /\ Snap(git, 0) /= Snap(git, 1)
    /\ Snap(git, 1) /= Snap(git, 2)
    /\ Snap(git, 0) /= Snap(git, 2)

\* no two assets of the list share a path
NoDuplicatePath(g, list) ==
    \A i, j \in 1..Len(list) : g.heap[list[i]].path = g.heap[list[j]].path => i = j

\* C10: after add_or_update calls only, on an initially empty store, no two
\* assets of the live collection share a path and its length is the number of
\* distinct paths passed; one more call keeps it so.
C10_UniquePaths ==
    onlyAdds =>
        /\ NoDuplicatePath(git, git.assets)
        /\ Len(git.assets) = Cardinality(added)
        /\ \A f \in Paths, c \in Texts :
             LET n == add_asset(git, f, c)
             IN /\ NoDuplicatePath(n, n.assets)
                /\ Len(n.assets) = Cardinality(added \cup {f})

\* two paths were passed, and passing one again with another body replaces it
C10_Witness ==
    /\ onlyAdds
    /\ Cardinality(added) = 2
    /\ Len(git.assets) = 2
    /\ \E f \in Paths, c \in Texts :
         LET n == add_asset(git, f, c)
         IN Len(n.assets) = Len(git.assets) /\ Live(n) /= Live(git)

\* the commit log and the redo stack with their labels, and head
History(g) == <<AllSnaps(g), [i \in 1..Len(g.commits) |-> g.commits[i].message], g.head>>

\* C11: add_or_update(path, content) on a collection holding an asset of that
\* path puts the new body at that asset's position and leaves the length and
\* every other asset, in order, unchanged; with no asset of that path it appends
\* one asset and leaves the existing ones unchanged.
C11_ReplaceOrAppend ==
    \A f \in Paths, c \in Texts :
        LET n == add_asset(git, f, c)
            new == <<f, extract_body(c)>>
            at == {i \in 1..Len(git.assets) : Live(git)[i][1] = f}
        IN IF at /= {}
           THEN /\ Len(Live(n)) = Len(Live(git))
                /\ \A i \in 1..Len(Live(git)) :
                     Live(n)[i] = IF i \in at THEN new ELSE Live(git)[i]
           ELSE Live(n) = Append(Live(git), new)

\* two assets, of which the first is given another body and keeps its place
C11_Witness ==
    /\ Len(git.assets) = 2
    /\ \E c \in Texts :
         LET f == Live(git)[1][1]
             n == add_asset(git, f, c)
         IN /\ Live(n)[1] = <<f, extract_body(c)>>
            /\ Live(n)[1] /= Live(git)[1]
            /\ Live(n)[2] = Live(git)[2]

\* the positions of the assets of path p in the live collection
At(g, p) == {i \in 1..Len(g.assets) : Live(g)[i][1] = p}

\* C12 as claimed: after fetch() with root present, for every file under root
\* the live collection holds exactly one asset of the file's path (root joined
\* with its relative path), and its body is the file's content as read.
C12_AsClaimed ==
    \A d \in RootDisks : \A order \in WalkOrders(d.fs) :
        Root \in d.dirs =>
            LET n == fetch(git, d.fs, d.dirs, order)
            IN \A p \in RootPaths :
                 exists(d.fs, p) =>
                    /\ Cardinality(At(n, filepath_of(p))) = 1
                    /\ \A i \in At(n, filepath_of(p)) : Live(n)[i][2] = d.fs[p]

\* the collection new holds exactly one asset of the path of each file of the
\* tree d under root, its body extract_body of the file's content
holds_files(d, new) ==
    \A p \in RootPaths :
        exists(d.fs, p) =>
            LET at == {i \in 1..Len(new) : new[i][1] = filepath_of(p)}
            IN /\ Cardinality(at) = 1
               /\ \A i \in at : new[i][2] = extract_body(d.fs[p])

\* C12 amended: after fetch() with root present, for every file under root the
\* live collection holds exactly one asset of the file's path, and its body is
\* extract_body of the file's content: the content from its first line that is
\* neither blank nor a path comment.
C12_FetchLoadsBodies ==
    \A d \in RootDisks : \A order \in WalkOrders(d.fs) :
        Root \in d.dirs => holds_files(d, Live(fetch(git, d.fs, d.dirs, order)))

\* the live collection is what a fetch leaves of a tree with a file in root and
\* a file in a subdirectory, one of which starts with a blank line
C12_Witness ==
    \E d \in RootDisks : \E order \in WalkOrders(d.fs) :
        /\ Len(order) = 2
        /\ \E p \in RootPaths : d.fs[p] /= extract_body(d.fs[p])
        /\ Live(fetch(git, d.fs, d.dirs, order)) = Live(git)
        /\ Live(git) = [i \in 1..2 |-> <<order[i], extract_body(d.fs[order[i]])>>]

\* the collection new holds every asset of old at its position with its path,
\* and with its body when the tree d has no file of that path
holds_assets(d, old, new) ==
    /\ Len(new) >= Len(old)
    /\ \A i \in 1..Len(old) :
         /\ new[i][1] = old[i][1]
         /\ ~exists(d.fs, old[i][1]) => new[i] = old[i]

\* C13: fetch() removes no asset: every asset of the live collection keeps its
\* position and path, and keeps its body when its file is not on disk; when
\* root does not exist, fetch leaves the live collection and the history as
\* they are (it writes nothing to the tree in any case).
C13_FetchKeepsAssets ==
    \A d \in RootDisks : \A order \in WalkOrders(d.fs) :
        /\ holds_assets(d, Live(git), Live(fetch(git, d.fs, d.dirs, order)))
        /\ Root \notin d.dirs => fetch(git, d.fs, d.dirs, order) = git

\* after a commit, a fetch finds a new file and not the file of the asset held
C13_Witness ==
    /\ git.commits /= <<>>
    /\ Len(git.assets) = 1
    /\ \E d \in RootDisks : \E order \in WalkOrders(d.fs) :
         LET n == fetch(git, d.fs, d.dirs, order)
         IN /\ ~exists(d.fs, Live(git)[1][1])
            /\ Len(n.assets) = 2
            /\ Live(n)[1] = Live(git)[1]

\* the tree r that a push leaves of the tree d, when it completed, holds the
\* bodies of the assets of live under root, and push wrote the files that
\* differed
holds_bodies(d, live, r) ==
    ~r.raised =>
        \A i \in 1..Len(live) :
            LET p == live[i][1]
                body == live[i][2]
            IN UnderRoot(p) =>
                 IF exists(d.fs, p) /\ d.fs[p] = body
                 THEN p \notin r.writes /\ r.fs[p] = body
                 ELSE /\ r.fs[p] = body
                      /\ p \in r.writes
                      /\ Ancestors(dirname(p)) \subseteq r.dirs

C15_PushStaysUnderRoot ==
    \A d \in Disks :
        LET r == push(git, d.fs, d.dirs)
        IN /\ \A p \in Paths : ~UnderRoot(p) => (r.fs[p] = d.fs[p] /\ p \notin r.writes)
           /\ \A dir \in r.dirs \ d.dirs : UnderRoot(dir)

\* the collection new holds of the collection old the assets whose
\* corresponding path exists in the tree d
holds_existing(d, old, new) ==
    /\ new = SelectSeq(old, LAMBDA a : file_exists(d.fs, d.dirs, filepath_of(a[1])))
    /\ \A i \in 1..Len(old) :
         UnderRoot(old[i][1]) => (old[i] \in Range(new) <=> exists(d.fs, old[i][1]))

\* the store n that clean leaves: holds_existing of old, and the history before
cleaned(d, before, old, n) ==
    /\ holds_existing(d, old, Live(n))
    /\ History(n) = before

holds_known(d, known, r) ==
    /\ \A p \in RootPaths :
         /\ exists(r, p) <=> (exists(d.fs, p) /\ filepath_of(p) \in known)
         /\ exists(r, p) => r[p] = d.fs[p]
    /\ Root \notin d.dirs => r = d.fs

\* C17: after prune() a file under root exists iff it existed before and its
\* path (root joined with its relative path) is a path of the live collection;
\* the files that survive keep their content; when root does not exist prune
\* changes nothing.  (prune only reads the store: live collection and history
\* are as before.)
C17_PruneDeletesUnknown ==
    \A d \in Disks :
        holds_known(d, Range(paths(git, git.assets)), prune(git, d.fs, d.dirs))

\* the store holds one of the two files under root: prune deletes the other
C17_Witness ==
    /\ Len(git.assets) >= 1
    /\ \E d \in Disks :
         LET r == prune(git, d.fs, d.dirs)
             p == Live(git)[1][1]
         IN /\ \A q \in RootPaths : exists(d.fs, q)
            /\ UnderRoot(p)
            /\ exists(r, p)
            /\ \E q \in RootPaths : exists(d.fs, q) /\ ~exists(r, q)

\* C18: remove_asset(path) leaves the live collection holding exactly the assets
\* of another path, in their order and with their bodies; with a path that no
\* asset has it changes no asset; the history is unchanged in both cases.
C18_RemoveFilters ==
    \A f \in Paths :
        LET n == remove_asset(git, f)
        IN /\ Live(n) = SelectSeq(Live(git), LAMBDA a : a[1] /= f)
           /\ At(git, f) = {} => Live(n) = Live(git)
           /\ History(n) = History(git)

\* two committed assets, of which the first is removed and a path that is not
\* there is removed too
C18_Witness ==
    /\ Len(git.assets) = 2
    /\ git.commits /= <<>>
    /\ Snap(git, git.head) = Live(git)
    /\ LET n == remove_asset(git, Live(git)[1][1])
       IN /\ Live(n) = <<Live(git)[2]>>
          /\ Snap(n, n.head) = Live(git)
    /\ \E f \in Paths : At(git, f) = {} /\ Live(remove_asset(git, f)) = Live(git)

RECURSIVE blockwise(_)
\* what the fenced blocks of a reply yield one by one, in order: an asset from
\* each block that parses, nothing from the prose and from the other blocks
blockwise(items) ==
    IF items = <<>> THEN <<>>
    ELSE (IF Head(items).kind = "block" THEN parse(Head(items).content) ELSE <<>>)
             \o blockwise(Tail(items))

\* C19 as claimed: of the N fenced blocks of a response, extract returns the K
\* assets of the blocks whose first non-blank line is a recognized path comment,
\* in block order, each with the path and body of its block; a block that is
\* rejected changes nothing of what the other blocks yield.
C19_ExtractBlockwise ==
    (codec.extracted /\ codec.items /= <<>>) => codec.assets = blockwise(codec.items)

\* C20 as claimed: for any asset (any path, any body extract_body produces) the
\* rendered block decodes to the asset: from_comment of the rendered comment
\* line is the path, extract_body of the rendered block content is the body,
\* and extract of the rendered text is the one asset.
C20_RenderThenExtract ==
    (codec.extracted /\ codec.source /= <<>>) =>
        LET path == codec.source[1]
            body == codec.source[2]
            text == codec.response_text
        IN /\ from_comment(text[2]) = path
           /\ extract_body(SubSeq(text, 2, Len(text) - 1)) = body
           /\ codec.assets = <<[path |-> path, code |-> body]>>

\* the characters of the stem are word characters, '/', '_' or '-'
plain(stem) == stem /= <<>> /\ \A i \in 1..Len(stem) : stem[i] \in WordChars

\* the line is a line-style comment of a path src/<stem>.(js|ts|dart), or a
\* block-style comment of a path src/<stem>.css
carries_path(c) ==
    /\ c.top = <<"s", "r", "c", "/">>
    /\ plain(c.stem)
    /\ \/ /\ c.opener = <<"/", "/">>
          /\ c.ext \in {<<".", "j", "s">>, <<".", "t", "s">>, <<".", "d", "a", "r", "t">>}
       \/ /\ c.opener = <<"/", "*">>
          /\ c.ext = <<".", "c", "s", "s">>
          /\ c.closer = <<" ", "*", "/">>

\* C21 as claimed: from_comment(line) returns a path only when the line is a
\* line-style comment of a path src/<word chars, '/', '_', '-'>.(js|ts|dart) or a
\* block-style comment of src/<...>.css, and then exactly the path written in
\* the comment; every other line yields None, in particular a path whose
\* extension only begins with a recognized one, a path not under src/, and a
\* comment style that does not fit the extension.
C21_RecognizePath ==
    codec.kind = "comment" =>
        codec.head = IF carries_path(codec.parts) THEN path_of(codec.parts) ELSE <<>>

\* raw without its maximal leading run of lines i with skip[i]; the empty
\* string when the run is all of raw
after_leading_run(raw, skip) ==
    LET n == Len(raw)
        run == {j \in 0..n : \A i \in 1..j : skip[i]}
        k == CHOOSE j \in run : \A x \in run : x <= j
    IN IF k = n THEN << <<>> >> ELSE SubSeq(raw, k + 1, n)

\* the line is blank
is_blank(line) == \A i \in 1..Len(line) : line[i] \in Space

\* the line is blank or from_comment finds a path in it
blank_or_path_comment(line) == is_blank(line) \/ Head_from_comment(line) /= <<>>

ext_of(path) ==
    LET dots == {i \in 1..Len(path) : path[i] = "."}
        last == CHOOSE i \in dots : \A j \in dots : j <= i
    IN IF dots = {} THEN <<>> ELSE SubSeq(path, last + 1, Len(path))

\* C23: for every line in which from_comment finds a path p,
\* from_comment(as_comment(p)) = p; as_comment(p) is '// p' and a newline for
\* .js, .ts and .dart and '/* p */' and a newline for .css; code_type(p) is the
\* language of the extension of p, which is not empty.
C23_RenderInverse ==
    codec.kind = "rendered" =>
        LET p == codec.path
            e == ext_of(p)
        IN /\ codec.head = p
           /\ e \in {<<"j", "s">>, <<"t", "s">>, <<"d", "a", "r", "t">>, <<"c", "s", "s">>}
           /\ codec.comment = IF e = <<"c", "s", "s">>
                               THEN <<"/", "*", " ">> \o p \o <<" ", "*", "/", "\n">>
                               ELSE <<"/", "/", " ">> \o p \o <<"\n">>
           /\ codec.code_type = CASE e = <<"j", "s">> -> "javascript"
                                  [] e = <<"t", "s">> -> "typescript"
                                  [] e = <<"d", "a", "r", "t">> -> "dart"
                                  [] e = <<"c", "s", "s">> -> "css"
           /\ codec.code_type /= ""

\* a dart path found in a line and rendered
C23_Witness ==
    /\ codec.kind = "rendered"
    /\ codec.code_type = "dart"
    /\ codec.head = codec.path

\* the line is a comment: it opens with '//' or '/*' after its leading blanks
is_comment(line) ==
    \/ str_startswith(str_strip(line), <<"/", "/">>)
    \/ str_startswith(str_strip(line), <<"/", "*">>)

\* the line is blank or a comment, with a path or without
blank_or_comment(line) == is_blank(line) \/ is_comment(line)

\* C29 as claimed: Body(raw).code leaves out every initial comment line
\* together with the initial blank lines: a leading comment that carries no
\* recognized path is dropped like a path comment.
C29_IgnoresInitialComments ==
    codec.kind = "body" => codec.code = after_leading_run(codec.raw,
                                       [i \in DOMAIN codec.raw |-> blank_or_comment(codec.raw[i])])

\* C27 as claimed: a collection of assets holds one asset of a path at most;
\* the collection extract_code_blocks returns for a reply in which two fenced
\* blocks carry the same path comment does not hold two assets of that path.
C27_ExtractedOnePerPath ==
    codec.extracted =>
        \A i, j \in 1..Len(codec.assets) :
            codec.assets[i].path = codec.assets[j].path => i = j

\* C30 as claimed: after any sequence of add_asset, remove_asset, commit,
\* undo, redo, fetch and clean, git.assets is still an Assets, which has paths
\* and match, so that git.assets.match(arg) of the task command does not fail
\* for want of the method.
C30_LiveIsAssets == git.cls = "Assets"

\* C24: match(text, threshold), whatever score in 0..100 partial_ratio gives
\* each base name, returns exactly the assets with score / 100 >= threshold,
\* each once and in the order they have in the collection, not by score; the
\* collection itself is left as it is, and the result is empty when no asset
\* reaches the threshold.
C24_MatchInOrder ==
    git.cls = "Assets" =>
        \A partial_ratio \in Ratios, threshold \in Thresholds :
            LET m == match(git, git.assets, partial_ratio, threshold)
                reaches(id) == partial_ratio[asset_base(git.heap[id].path)] >= threshold
                at(id) == CHOOSE i \in 1..Len(git.assets) : git.assets[i] = id
            IN /\ Range(m) = {id \in Range(git.assets) : reaches(id)}
               /\ \A i, j \in 1..Len(m) : i < j => at(m[i]) < at(m[j])
               /\ (\A id \in Range(git.assets) : ~reaches(id)) => m = <<>>

\* two assets match and the second one has the higher score
C24_Witness ==
    /\ git.cls = "Assets"
    /\ Len(git.assets) = 2
    /\ \E partial_ratio \in Ratios :
         /\ partial_ratio[asset_base(Live(git)[1][1])] = 70
         /\ partial_ratio[asset_base(Live(git)[2][1])] = 100
         /\ match(git, git.assets, partial_ratio, 70) = git.assets
         /\ match(git, git.assets, partial_ratio, 100) = <<git.assets[2]>>

\* the tree r1 that a push failing at asset k leaves of the tree d: the files
\* written hold the bodies of their assets, and every other file but the one
\* of asset k is as it was
holds_written(d, live, k, r1) ==
    /\ \A p \in r1.writes :
          \E i \in 1..Len(live) : Resolve(filepath_of(live[i][1])) = p /\ r1.fs[p] = live[i][2]
    /\ \A p \in Paths \ r1.writes :
          p /= Resolve(filepath_of(live[k][1])) => r1.fs[p] = d.fs[p]

\* the tree r2 that a completed push leaves holds the body of every asset of
\* live under root
holds_every_body(live, r2) ==
    ~r2.raised =>
        \A i \in 1..Len(live) : UnderRoot(live[i][1]) => r2.fs[live[i][1]] = live[i][2]

body_in(live, p) ==
    LET hits == {i \in 1..Len(live) : live[i][1] = p}
    IN IF hits = {} THEN <<>> ELSE live[Min(hits)][2]

\* the paths the last task gave a changed body
integrated_paths ==
    {p \in Paths : /\ body_in(codec.before, p) /= <<>>
                   /\ body_in(codec.after, p) /= body_in(codec.before, p)}

\* C25 as claimed: after a task command has given an asset of the store a
\* changed body, the undo command restores the body the asset had before in
\* the live list, and a redo command after it restores the new body.
C25_UndoRestoresTask ==
    /\ codec.kind = "cli" /\ codec.stage = "undo" =>
          \A p \in integrated_paths : body_in(Live(git), p) = body_in(codec.before, p)
    /\ codec.kind = "cli" /\ codec.stage = "redo" =>
          \A p \in integrated_paths : body_in(Live(git), p) = body_in(codec.after, p)

\* the extracted assets of path p that the task could integrate: a body other
\* than the one in the store before, and the answer y
accepted(p) ==
    {i \in DOMAIN codec.new_assets :
        /\ codec.new_assets[i].path = p
        /\ codec.new_assets[i].code /= body_in(codec.before, p)
        /\ strip_lower(codec.answers[i]) = "y"}

\* C28: in a task command an asset of the store gets a new body only when
\* the extracted body differs from the stored one and the user answers 'y';
\* with the same body or another answer the asset is left as it is; an
\* extracted asset of a path not in the store is added without a question;
\* push() is called once, after all the extracted assets.
C28_TaskIntegrates ==
    (codec.kind = "cli" /\ codec.stage = "task") =>
        LET before == codec.before
            after == codec.after
            new_assets == codec.new_assets
            extracted(p) == {i \in DOMAIN new_assets : new_assets[i].path = p}
        IN /\ \A p \in Paths :
                IF body_in(before, p) /= <<>>
                THEN /\ body_in(after, p) /= body_in(before, p) =>
                            \E i \in accepted(p) : new_assets[i].code = body_in(after, p)
                     /\ accepted(p) = {} => body_in(after, p) = body_in(before, p)
                ELSE IF extracted(p) /= {}
                     THEN \E i \in extracted(p) : new_assets[i].code = body_in(after, p)
                     ELSE body_in(after, p) = <<>>
           /\ SubSeq([i \in DOMAIN after |-> after[i][1]], 1, Len(before))
                  = [i \in DOMAIN before |-> before[i][1]]
           /\ codec.pushes <= 1
           /\ new_assets /= <<>> => codec.pushes = 1
           /\ codec.pushes = 1 => codec.pushed = Live(git)
           /\ codec.pushes = 0 => after = before /\ new_assets = <<>>

\* a task in which the changed body of an asset of the store is accepted
\* and the push follows
C28_Witness ==
    /\ codec.kind = "cli"
    /\ codec.stage = "task"
    /\ body_in(codec.before, "src/a.js") = <<"y">>
    /\ Len(codec.new_assets) = 1
    /\ codec.new_assets[1].code = <<"x">>
    /\ codec.answers[1] = " Y"
    /\ body_in(codec.after, "src/a.js") = <<"x">>
    /\ codec.pushes = 1
    /\ codec.pushed = Live(git)

\* C31 as claimed: with head > 0, undo() and redo() right after it leave the
\* history as it was: the commit log with the same length and entries, head,
\* and the redo stack, so that cycles of undo and redo never grow the log and
\* log() lists each commit once.
C31_UndoRedoKeepsLog ==
    git.head > 0 =>
        LET r == redo(undo(git))
        IN /\ Len(r.commits) = Len(git.commits)
           /\ AllSnaps(r) = AllSnaps(git)
           /\ r.head = git.head

\* C32: the redo stack agrees with the commit log: head + len(redo_stack) <=
\* len(commits) - 1, and the i-th snapshot redo would restore is the one of
\* commits[head + i]; so after an undo or a redo that acts, the live list is
\* the snapshot of commits[head].
C32_RedoAgreesWithLog ==
    LET n == Len(git.redo_stack)
    IN /\ git.head + n <= Len(git.commits) - 1
       /\ \A i \in 1..n :
             Content(git, git.redo_stack[n - i + 1].snapshot) = Snap(git, git.head + i)
       /\ git.head > 0 => Live(undo(git)) = Snap(undo(git), undo(git).head)
       /\ n > 0 => Live(redo(git)) = Snap(redo(git), redo(git).head)

\* two different snapshots wait on the redo stack, under entries an earlier
\* redo appended to the log
C32_Witness ==
    /\ git.head = 0
    /\ Len(git.redo_stack) = 2
    /\ Len(git.commits) > 3
    /\ Snap(git, 1) /= Snap(git, 2)
    /\ Content(git, git.redo_stack[2].snapshot) = Snap(git, 1)
    /\ Content(git, git.redo_stack[1].snapshot) = Snap(git, 2)

\* C37: in every state reached by add_asset, remove_asset, commit, undo, redo,
\* fetch and clean, no two assets of the live list share a path, and neither
\* do two assets of a snapshot of the commit log or of the redo stack.
C37_UniqueEverywhere ==
    /\ NoDuplicatePath(git, git.assets)
    /\ \A i \in 1..Len(git.commits) : NoDuplicatePath(git, git.commits[i].snapshot)
    /\ \A i \in 1..Len(git.redo_stack) : NoDuplicatePath(git, git.redo_stack[i].snapshot)

\* two assets in the live list, in a snapshot of the log and in one of the
\* redo stack
C37_Witness ==
    /\ Len(git.assets) = 2
    /\ git.redo_stack /= <<>>
    /\ Len(git.redo_stack[1].snapshot) = 2
    /\ Len(git.commits[1].snapshot) = 2

\* C36: _extract_body is idempotent: Body(Body(t).code).code = Body(t).code for
\* every text t, so that add_asset(a.head.path, a.body.code), as the task
\* command calls it for an extracted asset, stores a body equal to a.body.code.
C36_ExtractBodyIdempotent ==
    codec.kind = "body" => Body_extract_body(codec.code) = codec.code

\* a text that loses two leading lines, whose body is kept as it is
C36_Witness ==
    /\ codec.kind = "body"
    /\ Len(codec.raw) = 3
    /\ Len(codec.code) = 1
    /\ codec.code /= << <<>> >>
    /\ Body_extract_body(codec.code) = codec.code

\* C33 as claimed: push() right after fetch(), with nothing changed in
\* between, writes no file that fetch read, and every file under root keeps
\* its content, whatever the files hold (files that begin with a blank line
\* or with a path comment included).
C33_FetchThenPush ==
    \A d \in RootDisks : \A order \in WalkOrders(d.fs) :
        LET r == push(fetch(git, d.fs, d.dirs, order), d.fs, d.dirs)
        IN \A p \in RootPaths :
             exists(d.fs, p) => p \notin r.writes /\ r.fs[p] = d.fs[p]

C35_PushThenPrune ==
    \A d \in Disks :
        LET r == push(git, d.fs, d.dirs)
            left == prune(git, r.fs, r.dirs)
        IN ~r.raised =>
             \A i \in 1..Len(git.assets) :
                 UnderRoot(Live(git)[i][1]) =>
                     left[Resolve(filepath_of(Live(git)[i][1]))] = Live(git)[i][2]

\* C38 as claimed: push() assigns nothing of the store, and a second push()
\* right after one that completed writes no file and creates no directory.
C38_PushTwice ==
    \A d \in Disks :
        LET r1 == push(git, d.fs, d.dirs)
            r2 == push(git, r1.fs, r1.dirs)
        IN ~r1.raised =>
             /\ ~r2.raised
             /\ r2.writes = {}
             /\ r2.dirs = r1.dirs
             /\ r2.fs = r1.fs

\* the messages of the commits kept for redo
redo_messages(g) == [i \in 1..Len(g.redo_stack) |-> g.redo_stack[i].message]

\* C39: add_asset, remove_asset, fetch and clean leave the commit log (the
\* content and the message of every commit), head and the redo stack as they
\* were; commit, undo and redo take no tree, so they read and write no file.
C39_SyncKeepsHistory ==
    LET kept(g) == <<History(g), redo_messages(g)>>
        before == kept(git)
    IN /\ \A filename \in Paths :
             /\ kept(remove_asset(git, filename)) = before
             /\ \A content \in Texts :
                   kept(add_asset(git, filename, content)) = before
       /\ \A d \in RootDisks :
             /\ kept(clean(git, d.fs, d.dirs)) = before
             /\ \A order \in WalkOrders(d.fs) :
                   kept(fetch(git, d.fs, d.dirs, order)) = before

\* a store with commits and with snapshots kept for redo, of which clean
\* removes an asset and to which add_asset gives another body
C39_Witness ==
    /\ git.head >= 0
    /\ git.redo_stack /= <<>>
    /\ \E d \in RootDisks : Len(clean(git, d.fs, d.dirs).assets) < Len(git.assets)
    /\ \E filename \in Paths, content \in Texts :
          /\ filename \in {Live(git)[i][1] : i \in 1..Len(git.assets)}
          /\ Live(add_asset(git, filename, content)) /= Live(git)

\* the file push writes for an asset of this path
target(path) == Resolve(filepath_of(path))

\* the body of the last asset of the live list that push writes to the file
last_body(g, file) ==
    LET S == {i \in 1..Len(g.assets) :
                  startswith_root(Live(g)[i][1]) /\ target(Live(g)[i][1]) = file}
    IN Live(g)[CHOOSE i \in S : \A j \in S : j <= i][2]

C35_PruneAfterPush ==
    \A d \in Disks :
        LET r == push(git, d.fs, d.dirs)
            left == prune(git, r.fs, r.dirs)
            known == {Live(git)[i][1] : i \in 1..Len(git.assets)}
        IN ~r.raised =>
             \A i \in 1..Len(git.assets) :
                 UnderRoot(Live(git)[i][1]) =>
                     LET file == target(Live(git)[i][1])
                     IN left[file] = (IF file \in known THEN last_body(git, file)
                                                        ELSE NoFile)

\* a store with an asset of path src//a.js and an asset of path src/sub/b.js:
\* push writes src/a.js and src/sub/b.js, prune deletes src/a.js and keeps
\* src/sub/b.js
C35_Witness ==
    /\ Len(git.assets) = 2
    /\ Live(git)[1][1] = "src//a.js"
    /\ Live(git)[2][1] = "src/sub/b.js"
    /\ \E d \in Disks :
          LET r == push(git, d.fs, d.dirs)
              left == prune(git, r.fs, r.dirs)
          IN /\ ~r.raised
             /\ r.writes = {"src/a.js", "src/sub/b.js"}
             /\ r.fs["src/a.js"] = Live(git)[1][2]
             /\ left["src/a.js"] = NoFile
             /\ left["src/sub/b.js"] = Live(git)[2][2]

\* C38: push() assigns nothing of the store, and a second push() right after
\* one that completed completes, creates no directory and leaves every file
\* with the content the first left; it writes exactly the files that two
\* assets of different bodies name (by two path strings of one file), and no
\* file when there is no such pair.
C38_SecondPush ==
    \A d \in Disks :
        LET r1 == push(git, d.fs, d.dirs)
            r2 == push(git, r1.fs, r1.dirs)
            written == {i \in 1..Len(git.assets) : startswith_root(Live(git)[i][1])}
            shared == {target(Live(git)[i][1]) :
                          i \in {k \in written :
                                    \E j \in written :
                                        /\ target(Live(git)[j][1]) = target(Live(git)[k][1])
                                        /\ Live(git)[j][2] /= Live(git)[k][2]}}
        IN ~r1.raised =>
             /\ ~r2.raised
             /\ r2.dirs = r1.dirs
             /\ r2.fs = r1.fs
             /\ r2.writes = shared

\* a store with two assets of one file (src/a.js and src//a.js) and different
\* bodies: the first push writes the file, and so does the second
C38_Witness ==
    /\ Len(git.assets) = 2
    /\ Live(git)[1][1] = "src/a.js"
    /\ Live(git)[2][1] = "src//a.js"
    /\ Live(git)[1][2] /= Live(git)[2][2]
    /\ \E d \in Disks :
          LET r1 == push(git, d.fs, d.dirs)
              r2 == push(git, r1.fs, r1.dirs)
          IN /\ ~r1.raised
             /\ r1.writes = {"src/a.js"}
             /\ r2.writes = {"src/a.js"}
             /\ r2.fs["src/a.js"] = Live(git)[2][2]

====
